---- MODULE Spec2Model ----
(***************************************************************************)
(* The ICU antibiotic tracking page (src/app.py): a Streamlit script that  *)
(* reads and appends rows of one worksheet of a Google spreadsheet through *)
(* gspread.  Every browser session re-runs the script top to bottom on     *)
(* each interaction; the worksheet and the st.cache_resource store are     *)
(* shared by all sessions.                                                 *)
(*                                                                         *)
(* Text the code takes apart (the configured sheet URL) is a sequence of   *)
(* one-character strings; text it only passes along (cell values, error    *)
(* messages) is a TLA+ string.                                             *)
(***************************************************************************)
EXTENDS Integers, Sequences, FiniteSets, TLC

VARIABLES
    secrets,      \* st.secrets: [gcp, has_url, url]
    remote,       \* the Google side, fixed during a run: [auth_ok, worksheet_exists]
    grid,         \* the cells of worksheet "Sheet1": a sequence of rows
    cache,        \* the st.cache_resource entry of get_google_sheet_client
    pc,           \* per session: where its script run stands
    sheet_id,     \* per session: what get_sheet_id() returned to this run
    pending,      \* per session: the form submission this run was started by
    df_error,     \* per session: what read_sheet() returned to this run
    init_ret,     \* per session: what initialize_sheet_if_empty() returned
    append_ret,   \* per session: what append_to_sheet() returned, with its row_data
    grid0,        \* history: the worksheet as it was created
    appended,     \* history: the row_data of every successful append_to_sheet, in order
    calls,        \* history: the kinds of outbound calls made so far
    auth_calls,   \* history: how many times gspread.authorize was called
    handles       \* history: every result get_google_sheet_client has returned

vars == << secrets, remote, grid, cache, pc, sheet_id, pending, df_error,
           init_ret, append_ret, grid0, appended, calls, auth_calls, handles >>

Sessions == {"u1", "u2"}

\* ------------------------------------------------------------------ bounds
MaxRows == 3          \* rows the worksheet may grow to
MaxIdLen == 2         \* length of the spreadsheet IDs tried by SpecSheetId
MaxAuthCalls == 2     \* auth_calls saturates here

\* ------------------------------------------------------------ Python text
\* s[i:] for a 1-based i
From(s, i) == SubSeq(s, i, Len(s))

\* `sub in s`
Contains(s, sub) ==
    \E i \in 1..(Len(s) - Len(sub) + 1) : SubSeq(s, i, i + Len(sub) - 1) = sub

\* s.find(sub) + 1: the first place sub starts at, 0 when there is none
Find(s, sub) ==
    LET hits == { i \in 1..(Len(s) - Len(sub) + 1) :
                    SubSeq(s, i, i + Len(sub) - 1) = sub }
    IN  IF hits = {} THEN 0 ELSE CHOOSE i \in hits : \A j \in hits : i <= j

\* s.split(sep): the pieces between the non-overlapping occurrences of sep,
\* found left to right
RECURSIVE Split(_, _)
Split(s, sep) ==
    LET at == Find(s, sep)
    IN  IF at = 0
        THEN << s >>
        ELSE << SubSeq(s, 1, at - 1) >> \o Split(From(s, at + Len(sep)), sep)

Host == << "d","o","c","s",".","g","o","o","g","l","e",".","c","o","m","/",
           "s","p","r","e","a","d","s","h","e","e","t","s" >>
SlashD == << "/", "d", "/" >>
Slash == << "/" >>

None == "None"

\* get_sheet_id() that keeps what follows the ID
get_sheet_id_strip_mutant(s) ==
    IF ~s.has_url
    THEN [sheet_id |-> << >>, error |-> "Sheet URL not configured in secrets"]
    ELSE IF Contains(s.url, Host)
    THEN IF Contains(s.url, SlashD)
         THEN [sheet_id |-> Split(s.url, SlashD)[2], error |-> None]
         ELSE [sheet_id |-> << >>, error |-> "Invalid Sheet URL format"]
    ELSE [sheet_id |-> s.url, error |-> None]

\* get_sheet_id(): (sheet_id, error)
get_sheet_id(s) ==
    IF ~s.has_url
    THEN [sheet_id |-> << >>, error |-> "Sheet URL not configured in secrets"]
    ELSE IF Contains(s.url, Host)
    THEN IF Contains(s.url, SlashD)
         THEN [sheet_id |-> Split(Split(s.url, SlashD)[2], Slash)[1], error |-> None]
         ELSE [sheet_id |-> << >>, error |-> "Invalid Sheet URL format"]
    ELSE [sheet_id |-> s.url, error |-> None]

NotRun == [sheet_id |-> << >>, error |-> "not run"]


\* ------------------------------------------------------ the Google side
\* The spreadsheet that exists and is shared with the service account.
RemoteKey == << "A", "B", "C", "1", "2", "3" >>
OtherKey == << "Z", "Z" >>
Https == << "h", "t", "t", "p", "s", ":", "/", "/" >>
Edit == << "/", "e", "d", "i", "t" >>

Headers == << "Patient ID", "Antibiotic", "Dosage", "Date", "Time", "Added By" >>

Min(a, b) == IF a < b THEN a ELSE b
Range(f) == { f[i] : i \in DOMAIN f }

Width(g) == IF g = << >> THEN 0
            ELSE CHOOSE w \in { Len(g[i]) : i \in DOMAIN g } :
                    \A i \in DOMAIN g : Len(g[i]) <= w

Pad(row, w) == row \o [ i \in 1..(w - Len(row)) |-> "" ]

\* worksheet.get_all_values(): the used cells as a rectangle of text, [] for a
\* worksheet with no content
get_all_values(g) == LET w == Width(g) IN [ i \in DOMAIN g |-> Pad(g[i], w) ]

\* an append that inserts the row right below row 1
append_row_insert_mutant(g, row) ==
    IF g = << >> THEN << row >> ELSE << g[1], row >> \o Tail(g)

\* worksheet.append_row(row): the row lands below the last used row
append_row(g, row) == Append(g, row)

\* Text that int() accepts, with its value (TLA+ strings cannot be parsed).
IntValue == ( "500" :> 500 )

\* gspread's numericise(): a cell that reads as a number comes back as one
numericise(v) ==
    IF v \in DOMAIN IntValue
    THEN [kind |-> "int", s |-> "", n |-> IntValue[v]]
    ELSE [kind |-> "str", s |-> v, n |-> 0]

\* dict(zip(keys, row)) over the numericised cells of one row
to_record(keys, row) ==
    [ k \in Range(keys) |->
        numericise(row[CHOOSE i \in DOMAIN keys :
                          keys[i] = k /\ \A j \in DOMAIN keys : keys[j] = k => j <= i]) ]

\* worksheet.get_all_records(): row 1 is the keys, every later row one record;
\* [] when there is no row; raises when the keys repeat
get_all_records(g) ==
    LET data == get_all_values(g)
    IN  IF data = << >>
        THEN [raised |-> FALSE, records |-> << >>]
        ELSE IF Cardinality(Range(data[1])) # Len(data[1])
        THEN [raised |-> TRUE, records |-> << >>]
        ELSE [raised |-> FALSE,
              records |-> [ i \in 1..(Len(data) - 1) |->
                              to_record(data[1], data[i + 1]) ]]

\* ------------------------------------------------------------ the client
NoClient == 0

\* get_google_sheet_client() without its check of the secrets
get_google_sheet_client_nocheck_mutant ==
    IF remote.auth_ok /\ secrets.gcp
    THEN [value |-> [client |-> Min(auth_calls + 1, MaxAuthCalls), error |-> None],
          authorized |-> TRUE]
    ELSE [value |-> [client |-> NoClient, error |-> "Authentication error"],
          authorized |-> TRUE]

\* the body of get_google_sheet_client(): (client, error), and whether
\* gspread.authorize was called
get_google_sheet_client ==
    IF ~secrets.gcp
    THEN [value |-> [client |-> NoClient,
                     error |-> "Missing gcp_service_account in secrets"],
          authorized |-> FALSE]
    ELSE IF remote.auth_ok
    THEN [value |-> [client |-> Min(auth_calls + 1, MaxAuthCalls), error |-> None],
          authorized |-> TRUE]
    ELSE [value |-> [client |-> NoClient, error |-> "Authentication error"],
          authorized |-> TRUE]

\* a store that never answers
cache_resource_never_mutant == FALSE

\* @st.cache_resource: whether a call is answered from the store
cache_resource_hit == cache.hit

\* a call of the decorated get_google_sheet_client()
ClientCall ==
    IF cache_resource_hit
    THEN [value |-> cache.value, authorized |-> FALSE]
    ELSE get_google_sheet_client

\* what such a call leaves behind, with the other outbound calls of the handler
ClientEffects(r, more) ==
    /\ cache' = [hit |-> TRUE, value |-> r.value]
    /\ auth_calls' = IF r.authorized THEN Min(auth_calls + 1, MaxAuthCalls)
                     ELSE auth_calls
    /\ handles' = handles \cup { r.value }
    /\ calls' = calls \cup (IF r.authorized THEN {"authorize"} ELSE {}) \cup more

\* ------------------------------------------------------------ the facade
NoneDF == [is_none |-> TRUE, rows |-> << >>]
DataFrame(rows) == [is_none |-> FALSE, rows |-> rows]

\* read_sheet() that takes `not data` for a missing worksheet
read_sheet_nodata_mutant(client, sid) ==
    IF client.error # None
    THEN [df |-> NoneDF, error |-> client.error, net |-> {}]
    ELSE IF sid = << >>
    THEN [df |-> NoneDF, error |-> "Sheet ID is empty", net |-> {}]
    ELSE IF sid # RemoteKey
    THEN [df |-> NoneDF, error |-> "Spreadsheet not found", net |-> {"open_by_key"}]
    ELSE IF ~remote.worksheet_exists
    THEN [df |-> NoneDF, error |-> "Worksheet 'Sheet1' not found",
          net |-> {"open_by_key", "worksheet", "worksheets"}]
    ELSE LET data == get_all_records(grid)
         IN  IF data.raised
             THEN [df |-> NoneDF, error |-> "Unexpected error",
                   net |-> {"open_by_key", "worksheet", "get_all_records"}]
             ELSE IF data.records = << >>
             THEN [df |-> NoneDF, error |-> "Worksheet 'Sheet1' not found",
                   net |-> {"open_by_key", "worksheet", "get_all_records"}]
             ELSE [df |-> DataFrame(data.records), error |-> None,
                   net |-> {"open_by_key", "worksheet", "get_all_records"}]

\* read_sheet(sheet_id): (df, error), and the outbound calls it made
read_sheet(client, sid) ==
    IF client.error # None
    THEN [df |-> NoneDF, error |-> client.error, net |-> {}]
    ELSE IF sid = << >>
    THEN [df |-> NoneDF, error |-> "Sheet ID is empty", net |-> {}]
    ELSE IF sid # RemoteKey
    THEN [df |-> NoneDF, error |-> "Spreadsheet not found", net |-> {"open_by_key"}]
    ELSE IF ~remote.worksheet_exists
    THEN [df |-> NoneDF, error |-> "Worksheet 'Sheet1' not found",
          net |-> {"open_by_key", "worksheet", "worksheets"}]
    ELSE LET data == get_all_records(grid)
         IN  IF data.raised
             THEN [df |-> NoneDF, error |-> "Unexpected error",
                   net |-> {"open_by_key", "worksheet", "get_all_records"}]
             ELSE IF data.records = << >>
             THEN [df |-> DataFrame(<< >>), error |-> None,
                   net |-> {"open_by_key", "worksheet", "get_all_records"}]
             ELSE [df |-> DataFrame(data.records), error |-> None,
                   net |-> {"open_by_key", "worksheet", "get_all_records"}]

\* append_to_sheet(sheet_id, row_data): (success, error), the worksheet
\* after it, and the outbound calls it made
append_to_sheet(client, sid, row) ==
    IF client.error # None
    THEN [success |-> FALSE, error |-> client.error, grid |-> grid, net |-> {}]
    ELSE IF sid # RemoteKey
    THEN [success |-> FALSE, error |-> "Spreadsheet not found", grid |-> grid,
          net |-> {"open_by_key"}]
    ELSE IF ~remote.worksheet_exists
    THEN [success |-> FALSE, error |-> "Worksheet 'Sheet1' not found", grid |-> grid,
          net |-> {"open_by_key", "worksheet"}]
    ELSE [success |-> TRUE, error |-> None, grid |-> append_row(grid, row),
          net |-> {"open_by_key", "worksheet", "append_row"}]

\* initialize_sheet_if_empty() without its emptiness check
initialize_check_always_mutant(client, sid) ==
    IF client.error # None
    THEN [go |-> FALSE, success |-> FALSE, msg |-> client.error, net |-> {}]
    ELSE IF sid # RemoteKey
    THEN [go |-> FALSE, success |-> FALSE, msg |-> "Error initializing sheet",
          net |-> {"open_by_key"}]
    ELSE IF ~remote.worksheet_exists
    THEN [go |-> FALSE, success |-> FALSE, msg |-> "Error initializing sheet",
          net |-> {"open_by_key", "worksheet"}]
    ELSE [go |-> TRUE, success |-> TRUE, msg |-> "Headers added successfully",
          net |-> {"open_by_key", "worksheet", "get_all_values"}]

\* initialize_sheet_if_empty(sheet_id) up to its get_all_values() check:
\* whether it goes on to append, what it returns when it does not, and the
\* outbound calls it made
initialize_check(client, sid) ==
    IF client.error # None
    THEN [go |-> FALSE, success |-> FALSE, msg |-> client.error, net |-> {}]
    ELSE IF sid # RemoteKey
    THEN [go |-> FALSE, success |-> FALSE, msg |-> "Error initializing sheet",
          net |-> {"open_by_key"}]
    ELSE IF ~remote.worksheet_exists
    THEN [go |-> FALSE, success |-> FALSE, msg |-> "Error initializing sheet",
          net |-> {"open_by_key", "worksheet"}]
    ELSE IF get_all_values(grid) = << >>
    THEN [go |-> TRUE, success |-> TRUE, msg |-> "Headers added successfully",
          net |-> {"open_by_key", "worksheet", "get_all_values"}]
    ELSE [go |-> FALSE, success |-> TRUE, msg |-> None,
          net |-> {"open_by_key", "worksheet", "get_all_values"}]

\* the four-column header row
initialize_headers_four_mutant == << "Patient ID", "Antibiotic", "Dosage", "Date" >>

\* the header row initialize_sheet_if_empty() writes
initialize_headers == Headers

\* -------------------------------------------------------------- the form
\* str(date) and str(time) of the dates and times the form is given
str_date == ( << 2024, 1, 1 >> :> "2024-01-01" ) @@ ( << 2024, 1, 2 >> :> "2024-01-02" )
str_time == ( << 8, 0 >> :> "08:00:00" ) @@ ( << 20, 30 >> :> "20:30:00" )

\* the widgets as first rendered: empty text inputs, a date and a time
BlankForm == [patient_id |-> "", antibiotic |-> "", dosage |-> "",
              date |-> << 2024, 1, 1 >>, time |-> << 8, 0 >>, added_by |-> ""]

FormInputs ==
    { [patient_id |-> "ICU-001", antibiotic |-> "Ceftriaxone", dosage |-> "1g IV",
       date |-> << 2024, 1, 1 >>, time |-> << 8, 0 >>, added_by |-> "Dr. A"],
      [patient_id |-> "ICU-002", antibiotic |-> "Meropenem", dosage |-> "500",
       date |-> << 2024, 1, 2 >>, time |-> << 20, 30 >>, added_by |-> ""],
      BlankForm }

\* `not patient_id or not antibiotic or not dosage`
required_missing(f) == f.patient_id = "" \/ f.antibiotic = "" \/ f.dosage = ""

\* the row_data list the submit handler builds
row_data(f) ==
    << f.patient_id, f.antibiotic, f.dosage, str_date[f.date], str_time[f.time],
       IF f.added_by # "" THEN f.added_by ELSE "Unknown" >>

NoSubmit == [submitted |-> FALSE, form |-> BlankForm]
NoRead == [df |-> NoneDF, error |-> "not run"]
NoInit == [called |-> FALSE, success |-> FALSE, msg |-> None]
NoAppend == [called |-> FALSE, success |-> FALSE, error |-> None, row_data |-> << >>]

\* ------------------------------------------------------------------- Init
StrayRow == << "note" >>

\* worksheets as they may exist before the page is first used
InitGrids ==
    { << >>, << Headers >>, << StrayRow >>,
      << Headers, << "ICU-000", "Vancomycin", "1g IV", "2023-12-31", "23:00:00",
                     "Unknown" >> >> }

ValidUrl == Https \o Host \o SlashD \o RemoteKey \o Edit

ConfiguredSecrets ==
    { [gcp |-> TRUE, has_url |-> TRUE, url |-> ValidUrl],
      [gcp |-> FALSE, has_url |-> TRUE, url |-> ValidUrl],
      [gcp |-> TRUE, has_url |-> TRUE, url |-> Https \o Host \o SlashD \o OtherKey],
      [gcp |-> TRUE, has_url |-> TRUE, url |-> Https \o Host \o SlashD \o Edit],
      [gcp |-> TRUE, has_url |-> TRUE, url |-> Https \o Host \o Edit],
      [gcp |-> TRUE, has_url |-> FALSE, url |-> << >>] }

InitSessions ==
    /\ cache = [hit |-> FALSE, value |-> [client |-> NoClient, error |-> None]]
    /\ pc = [s \in Sessions |-> "idle"]
    /\ sheet_id = [s \in Sessions |-> NotRun]
    /\ pending = [s \in Sessions |-> NoSubmit]
    /\ df_error = [s \in Sessions |-> NoRead]
    /\ init_ret = [s \in Sessions |-> NoInit]
    /\ append_ret = [s \in Sessions |-> NoAppend]
    /\ appended = << >>
    /\ calls = {}
    /\ auth_calls = 0
    /\ handles = {}

Init ==
    /\ secrets \in ConfiguredSecrets
    /\ remote \in [auth_ok : BOOLEAN, worksheet_exists : BOOLEAN]
    /\ grid0 \in InitGrids
    /\ grid = grid0
    /\ InitSessions

\* ---------------------------------------------------------------- actions
\* MaxRows bounds the worksheet: a click that leads to a write is taken only
\* while there is room for the writes already under way and its own.
\* a session with a write it has yet to make
InFlight(s) ==
    \/ pending[s].submitted /\ ~required_missing(pending[s].form)
    \/ pc[s] \in {"init_check", "init_append"}

RoomToWrite == Len(grid) + Cardinality({ s \in Sessions : InFlight(s) }) < MaxRows

\* The top of the script: get_sheet_id(), st.stop() on its error; then the
\* sidebar, where the button that was clicked (if any) has its handler run.
StartRun(s, first, submit) ==
    /\ LET r == get_sheet_id(secrets) IN
        /\ sheet_id' = [sheet_id EXCEPT ![s] = r]
        /\ pc' = [pc EXCEPT ![s] = IF r.error # None THEN "stopped" ELSE first]
        /\ pending' = [pending EXCEPT ![s] = IF r.error # None THEN NoSubmit
                                             ELSE submit]
    /\ df_error' = [df_error EXCEPT ![s] = NoRead]
    /\ init_ret' = [init_ret EXCEPT ![s] = NoInit]
    /\ append_ret' = [append_ret EXCEPT ![s] = NoAppend]
    /\ UNCHANGED << secrets, remote, grid, cache, grid0, appended, calls,
                    auth_calls, handles >>

\* the page is opened or reloaded
PageLoad(s) ==
    /\ pc[s] \in {"idle", "stopped"}
    /\ StartRun(s, "read", NoSubmit)

\* "Test Connection" is clicked
ClickTest(s) ==
    /\ pc[s] = "idle"
    /\ sheet_id[s] # NotRun
    /\ StartRun(s, "test", NoSubmit)

\* "Initialize Sheet Headers" is clicked
ClickInit(s) ==
    /\ pc[s] = "idle"
    /\ sheet_id[s] # NotRun
    /\ RoomToWrite
    /\ StartRun(s, "init_check", NoSubmit)

\* "Submit Entry" is clicked with the form filled as f
Submit(s, f) ==
    /\ pc[s] = "idle"
    /\ sheet_id[s] # NotRun
    /\ RoomToWrite
    /\ StartRun(s, "read", [submitted |-> TRUE, form |-> f])

\* the Test Connection handler: get_google_sheet_client()
TestClient(s) ==
    /\ pc[s] = "test"
    /\ ClientEffects(ClientCall, {})
    /\ pc' = [pc EXCEPT ![s] = IF ClientCall.value.error # None
                               THEN "read" ELSE "test_read"]
    /\ UNCHANGED << secrets, remote, grid, sheet_id, pending, df_error, init_ret,
                    append_ret, grid0, appended >>

\* the Test Connection handler: read_sheet(sheet_id), its result only shown
TestRead(s) ==
    /\ pc[s] = "test_read"
    /\ ClientEffects(ClientCall, read_sheet(ClientCall.value, sheet_id[s].sheet_id).net)
    /\ pc' = [pc EXCEPT ![s] = "read"]
    /\ UNCHANGED << secrets, remote, grid, sheet_id, pending, df_error, init_ret,
                    append_ret, grid0, appended >>

\* initialize_sheet_if_empty() up to and including its get_all_values() check
InitCheck(s) ==
    /\ pc[s] = "init_check"
    /\ LET r == initialize_check(ClientCall.value, sheet_id[s].sheet_id) IN
        /\ ClientEffects(ClientCall, r.net)
        /\ pc' = [pc EXCEPT ![s] = IF r.go THEN "init_append" ELSE "read"]
        /\ init_ret' = [init_ret EXCEPT ![s] =
                IF r.go THEN NoInit
                ELSE [called |-> TRUE, success |-> r.success, msg |-> r.msg]]
    /\ UNCHANGED << secrets, remote, grid, sheet_id, pending, df_error,
                    append_ret, grid0, appended >>

\* initialize_sheet_if_empty(): worksheet.append_row(headers) and the return
InitAppend(s) ==
    /\ pc[s] = "init_append"
    /\ grid' = append_row(grid, initialize_headers)
    /\ calls' = calls \cup {"append_row"}
    /\ init_ret' = [init_ret EXCEPT ![s] =
            [called |-> TRUE, success |-> TRUE, msg |-> "Headers added successfully"]]
    /\ pc' = [pc EXCEPT ![s] = "read"]
    /\ UNCHANGED << secrets, remote, cache, sheet_id, pending, df_error,
                    append_ret, grid0, appended, auth_calls, handles >>

\* the main panel: df, error = read_sheet(sheet_id)
MainRead(s) ==
    /\ pc[s] = "read"
    /\ LET r == read_sheet(ClientCall.value, sheet_id[s].sheet_id) IN
        /\ ClientEffects(ClientCall, r.net)
        /\ df_error' = [df_error EXCEPT ![s] = [df |-> r.df, error |-> r.error]]
    /\ pc' = [pc EXCEPT ![s] = "form"]
    /\ UNCHANGED << secrets, remote, grid, sheet_id, pending, init_ret,
                    append_ret, grid0, appended >>

\* the table is rendered and the form reached with nothing to submit, or with
\* a required field blank: the run ends
FormIdle(s) ==
    /\ pc[s] = "form"
    /\ ~pending[s].submitted \/ required_missing(pending[s].form)
    /\ pc' = [pc EXCEPT ![s] = "idle"]
    /\ pending' = [pending EXCEPT ![s] = NoSubmit]
    /\ df_error' = [df_error EXCEPT ![s] = NoRead]
    /\ init_ret' = [init_ret EXCEPT ![s] = NoInit]
    /\ append_ret' = [append_ret EXCEPT ![s] = NoAppend]
    /\ UNCHANGED << secrets, remote, grid, cache, sheet_id, grid0, appended,
                    calls, auth_calls, handles >>

\* the submit handler: append_to_sheet(sheet_id, row_data), then st.rerun()
\* on success and the error message otherwise.  The rerun starts the script
\* again with no button clicked; get_sheet_id() gives what it gave before.
FormSubmit(s) ==
    /\ pc[s] = "form"
    /\ pending[s].submitted /\ ~required_missing(pending[s].form)
    /\ LET r == append_to_sheet(ClientCall.value, sheet_id[s].sheet_id,
                                row_data(pending[s].form)) IN
        /\ ClientEffects(ClientCall, r.net)
        /\ grid' = r.grid
        /\ appended' = IF r.success THEN Append(appended, row_data(pending[s].form))
                       ELSE appended
        /\ append_ret' = [append_ret EXCEPT ![s] =
                [called |-> TRUE, success |-> r.success, error |-> r.error,
                 row_data |-> row_data(pending[s].form)]]
        /\ pc' = [pc EXCEPT ![s] = IF r.success THEN "read" ELSE "failed"]
    /\ pending' = [pending EXCEPT ![s] = NoSubmit]
    /\ UNCHANGED << secrets, remote, sheet_id, df_error, init_ret, grid0 >>

\* the run that showed "Failed to add entry" ends
EndFailed(s) ==
    /\ pc[s] = "failed"
    /\ pc' = [pc EXCEPT ![s] = "idle"]
    /\ df_error' = [df_error EXCEPT ![s] = NoRead]
    /\ init_ret' = [init_ret EXCEPT ![s] = NoInit]
    /\ append_ret' = [append_ret EXCEPT ![s] = NoAppend]
    /\ UNCHANGED << secrets, remote, grid, cache, sheet_id, pending, grid0,
                    appended, calls, auth_calls, handles >>

Next ==
    \E s \in Sessions :
        \/ PageLoad(s)
        \/ ClickTest(s)
        \/ ClickInit(s)
        \/ \E f \in FormInputs : Submit(s, f)
        \/ TestClient(s)
        \/ TestRead(s)
        \/ InitCheck(s)
        \/ InitAppend(s)
        \/ MainRead(s)
        \/ FormIdle(s)
        \/ FormSubmit(s)
        \/ EndFailed(s)

Spec == Init /\ [][Next]_vars

\* ------------------------------------------- get_sheet_id on many inputs
IdChars == {"A", "d", "1"}
Ids == UNION { [1..k -> IdChars] : k \in 0..MaxIdLen }

UrlInputs ==
    { pre \o mid \o id \o tail :
        pre \in { Host, Https \o Host, Https \o << "x", ".", "i", "o" >> },
        mid \in { SlashD, Slash, << "/", "u", "/", "0" >> \o SlashD },
        id \in Ids,
        tail \in { << >>, Slash, Edit, Edit \o SlashD \o OtherKey \o Slash } }
    \cup Ids

InitSheetId ==
    /\ secrets \in { [gcp |-> TRUE, has_url |-> TRUE, url |-> u] : u \in UrlInputs }
                   \cup { [gcp |-> TRUE, has_url |-> FALSE, url |-> << >>] }
    /\ remote = [auth_ok |-> TRUE, worksheet_exists |-> TRUE]
    /\ grid0 = << >>
    /\ grid = grid0
    /\ InitSessions

\* only the top of the script runs: each session loads the page
NextSheetId == \E s \in Sessions : PageLoad(s)

SpecSheetId == InitSheetId /\ [][NextSheetId]_vars

\* ----------------------------------------------------------------- claims
MissingCredentials == "Missing gcp_service_account in secrets"
EmptyTable == [df |-> DataFrame(<< >>), error |-> None]

\* a cell of a table that holds the text v
Text(v) == [kind |-> "str", s |-> v, n |-> 0]

\* session s's calls get through to the worksheet
Reaches(s) ==
    /\ secrets.gcp
    /\ remote.auth_ok
    /\ remote.worksheet_exists
    /\ sheet_id[s].sheet_id = RemoteKey

\* session s takes the step that leaves at
Leaves(s, at) == pc[s] = at /\ pc'[s] # at

\* C1: from a worksheet holding only the header row, the N successful
\* append_to_sheet calls leave exactly their N rows below the header, in the
\* order of the calls, whatever reads other sessions make in between; a read
\* of the worksheet then yields N records.
C1_AppendsInCallOrder ==
    grid0 = << Headers >> =>
        /\ grid = << Headers >> \o appended
        /\ ~get_all_records(grid).raised
        /\ Len(get_all_records(grid).records) = Len(appended)

\* two distinct rows were appended while another session, which read between
\* the two appends, still shows one row
C1_Witness ==
    /\ grid0 = << Headers >>
    /\ Len(appended) = 2
    /\ appended[1] # appended[2]
    /\ \E s \in Sessions :
        /\ pc[s] = "form"
        /\ df_error[s].error = None
        /\ Len(df_error[s].df.rows) = 1

\* C2: the read before the submit returned an empty table from an empty
\* worksheet, the submitted row was appended to it with success and nothing
\* else was written: the read of the rerun returns exactly one record,
\* holding the six submitted values.
C2_EndToEnd ==
    [][ \A s \in Sessions :
          ( /\ Leaves(s, "read")
            /\ append_ret[s].called
            /\ append_ret[s].success
            /\ df_error[s] = EmptyTable
            /\ grid0 = << >>
            /\ grid = << append_ret[s].row_data >> )
          => /\ df_error'[s].error = None
             /\ Len(df_error'[s].df.rows) = 1
             /\ \A i \in 1..6 :
                    df_error'[s].df.rows[1][Headers[i]] = Text(append_ret[s].row_data[i])
      ]_vars

\* C3 as stated: initialize_sheet_if_empty on a worksheet with content leaves
\* it alone and returns False as its first value.
C3_ReportsFalse ==
    [][ \A s \in Sessions :
          (Leaves(s, "init_check") /\ grid # << >>)
          => /\ grid' = grid
             /\ pc'[s] = "read"
             /\ init_ret'[s].called
             /\ init_ret'[s].success = FALSE
      ]_vars

\* C3 amended: initialize_sheet_if_empty on a worksheet with content writes
\* nothing and returns; when its calls get through to the worksheet it
\* returns (True, None), success without the "Headers added" message.
C3_NoOpOnContent ==
    [][ \A s \in Sessions :
          (Leaves(s, "init_check") /\ grid # << >>)
          => /\ grid' = grid
             /\ pc'[s] = "read"
             /\ init_ret'[s].called
             /\ Reaches(s) =>
                   init_ret'[s] = [called |-> TRUE, success |-> TRUE, msg |-> None]
      ]_vars

\* the call has returned (True, None) on a worksheet holding one stray cell
C3_Witness ==
    /\ grid0 = << StrayRow >>
    /\ grid = grid0
    /\ \E s \in Sessions :
        /\ pc[s] = "read"
        /\ init_ret[s] = [called |-> TRUE, success |-> TRUE, msg |-> None]

\* C4 as stated: the row initialize_sheet_if_empty appends is PatientId,
\* Antibiotic, Dosage, Date, Time, AddedBy.
C4_SpecHeaderStrings ==
    [][ \A s \in Sessions :
          /\ (Leaves(s, "init_check") /\ grid = << >> /\ Reaches(s))
             => (pc'[s] = "init_append" /\ grid' = grid)
          /\ Leaves(s, "init_append")
             => /\ grid' = Append(grid, << "PatientId", "Antibiotic", "Dosage",
                                           "Date", "Time", "AddedBy" >>)
                /\ init_ret'[s].called
                /\ init_ret'[s].success
      ]_vars

\* C4 amended: initialize_sheet_if_empty, having found the worksheet empty,
\* appends exactly one row, Patient ID, Antibiotic, Dosage, Date, Time,
\* Added By, and returns (True, "Headers added successfully").
C4_AppendsHeaderRow ==
    [][ \A s \in Sessions :
          /\ (Leaves(s, "init_check") /\ grid = << >> /\ Reaches(s))
             => (pc'[s] = "init_append" /\ grid' = grid)
          /\ Leaves(s, "init_append")
             => /\ grid' = Append(grid, << "Patient ID", "Antibiotic", "Dosage",
                                           "Date", "Time", "Added By" >>)
                /\ init_ret'[s] = [called |-> TRUE, success |-> TRUE,
                                   msg |-> "Headers added successfully"]
      ]_vars

\* the call has returned after writing the header row to an empty worksheet
C4_Witness ==
    /\ grid0 = << >>
    /\ Len(grid) = 1
    /\ \E s \in Sessions :
        /\ pc[s] = "read"
        /\ init_ret[s].msg = "Headers added successfully"

\* C5: read_sheet on a worksheet that holds the header row and nothing else,
\* and that its calls get through to, returns an empty table and no error.
C5_HeaderOnlyReadsEmpty ==
    [][ \A s \in Sessions :
          ( /\ Leaves(s, "read")
            /\ Reaches(s)
            /\ grid = << << "Patient ID", "Antibiotic", "Dosage", "Date", "Time",
                            "Added By" >> >> )
          => df_error'[s] = EmptyTable
      ]_vars

\* a session shows the empty table it read from the header-only worksheet
C5_Witness ==
    /\ Len(grid) = 1
    /\ grid[1] = Headers
    /\ \E s \in Sessions :
        /\ pc[s] = "form"
        /\ Reaches(s)
        /\ df_error[s] = EmptyTable

\* p is where the first "/d/" of u starts
FirstSlashD(u, p) ==
    /\ p + 2 <= Len(u)
    /\ SubSeq(u, p, p + 2) = SlashD
    /\ \A j \in 1..(p - 1) : SubSeq(u, j, j + 2) # SlashD

\* q is where the first "/" of u at or after place p is
FirstSlashFrom(u, p, q) ==
    /\ q >= p
    /\ u[q] = "/"
    /\ \A j \in p..(q - 1) : u[j] # "/"

\* C6: for a configured value that holds the spreadsheet host and
\* "/d/<id>/", get_sheet_id returns <id>, what stands between the first
\* "/d/" and the next "/", and no error; for a value without the host it
\* returns the value as it is, and no error.
C6_ExtractSheetId ==
    \A s \in Sessions :
        (sheet_id[s] # NotRun /\ secrets.has_url) =>
            /\ ~Contains(secrets.url, Host)
               => sheet_id[s] = [sheet_id |-> secrets.url, error |-> None]
            /\ Contains(secrets.url, Host)
               => \A p \in 1..Len(secrets.url) : \A q \in 1..Len(secrets.url) :
                    ( /\ FirstSlashD(secrets.url, p)
                      /\ FirstSlashFrom(secrets.url, p + 3, q) )
                    => sheet_id[s] = [sheet_id |-> SubSeq(secrets.url, p + 3, q - 1),
                                      error |-> None]

\* the ID was taken out of a URL that goes on after it
C6_Witness ==
    /\ secrets.has_url
    /\ Contains(secrets.url, Host)
    /\ Contains(secrets.url, SlashD \o << "A", "d" >> \o Edit)
    /\ \E s \in Sessions :
        sheet_id[s] = [sheet_id |-> << "A", "d" >>, error |-> None]

\* C7: without gcp_service_account in the secrets no outbound call is ever
\* made, the worksheet stays as it was, and every read_sheet,
\* append_to_sheet and initialize_sheet_if_empty returns the missing
\* credentials error.
C7_MissingCredentials ==
    ~secrets.gcp =>
        /\ calls = {}
        /\ auth_calls = 0
        /\ grid = grid0
        /\ cache.hit => cache.value = [client |-> NoClient, error |-> MissingCredentials]
        /\ \A s \in Sessions :
            /\ pc[s] \in {"form", "failed"}
               => df_error[s] = [df |-> NoneDF, error |-> MissingCredentials]
            /\ init_ret[s].called
               => (~init_ret[s].success /\ init_ret[s].msg = MissingCredentials)
            /\ append_ret[s].called
               => (~append_ret[s].success /\ append_ret[s].error = MissingCredentials)

\* without the credentials, one session's submit and the other's
\* initialize have both come back with the error
C7_Witness ==
    /\ ~secrets.gcp
    /\ \E s \in Sessions : pc[s] = "failed" /\ append_ret[s].called
    /\ \E s \in Sessions : init_ret[s].called

\* C8: gspread.authorize is called at most once, by the first call of
\* get_google_sheet_client, and every call returns the one stored result.
C8_ClientMemoized ==
    /\ auth_calls <= 1
    /\ Cardinality(handles) <= 1
    /\ auth_calls = 1 => cache.hit
    /\ cache.hit => handles = { cache.value }

\* reads, an append, an initialize and a connection test have all run on
\* one authorization
C8_Witness ==
    /\ auth_calls = 1
    /\ {"get_all_records", "get_all_values", "append_row"} \subseteq calls
    /\ appended # << >>
    /\ \E s \in Sessions : pc[s] = "test_read"

\* a row the submit handler can build
IsRecord(row) == \E f \in FormInputs : ~required_missing(f) /\ row = row_data(f)

\* C9: starting from an empty worksheet, a worksheet with content has the
\* header row first and one record in every later row.
C9_HeaderFirst ==
    (grid0 = << >> /\ grid # << >>) =>
        /\ grid[1] = Headers
        /\ \A i \in 2..Len(grid) : IsRecord(grid[i])

\* C10: both sessions have had initialize_sheet_if_empty return success on
\* the worksheet that started empty, and nothing was submitted: the
\* worksheet holds one header row.
C10_SingleHeader ==
    ( /\ grid0 = << >>
      /\ appended = << >>
      /\ \A s \in Sessions : init_ret[s].called /\ init_ret[s].success )
    => grid = << Headers >>

====
